---------------------------- MODULE Spec2Model ----------------------------
(***************************************************************************)
(* A model of glob-prime: the pattern engine (src/src/pattern.rs) and the  *)
(* selector pipeline (src/src/glob.rs).                                     *)
(*                                                                         *)
(* Strings are sequences of one-character strings.  A path is the sequence *)
(* of its components (each a string in that sense); the empty sequence is  *)
(* the path ".".  An Option is a record [some, val].                       *)
(***************************************************************************)
EXTENDS Integers, Sequences, FiniteSets, TLC

SEP == "/"

None == [some |-> FALSE, val |-> <<>>]

Some(v) == [some |-> TRUE, val |-> v]

Last(s) == s[Len(s)]

ButLast(s) == SubSeq(s, 1, Len(s) - 1)

SeqToSet(s) == {s[k] : k \in 1..Len(s)}

(***************************************************************************)
(* pattern.rs: tokens                                                      *)
(***************************************************************************)
NoSpecs == <<>>

Char(c) == [t |-> "Char", c |-> c, specs |-> NoSpecs]

AnyChar == [t |-> "AnyChar", c |-> "", specs |-> NoSpecs]

AnySequence == [t |-> "AnySequence", c |-> "", specs |-> NoSpecs]

AnyRecursiveSequence == [t |-> "AnyRecursiveSequence", c |-> "", specs |-> NoSpecs]

AnyWithin(cs) == [t |-> "AnyWithin", c |-> "", specs |-> cs]

AnyExcept(cs) == [t |-> "AnyExcept", c |-> "", specs |-> cs]

SingleChar(c) == [k |-> "SingleChar", a |-> c, b |-> c]

CharRange(a, b) == [k |-> "CharRange", a |-> a, b |-> b]

\* Result of Pattern::parse / Pattern::new: Ok(tokens), Err(Error{pos}), or
\* a panic (an index out of bounds while scanning a bracket class).
ParseOk(toks) == [kind |-> "ok", tokens |-> toks, pos |-> 0]

ParseErr(p) == [kind |-> "err", tokens |-> <<>>, pos |-> p]

ParsePanic == [kind |-> "panic", tokens |-> <<>>, pos |-> 0]

\* chars.slice_from(from).position_elem(&']'): the 0-based offset of the
\* first ']' at or after 0-based index `from`, or -1.
RECURSIVE position_elem(_, _, _)
position_elem(chars, from, j) ==
  IF from + j >= Len(chars) THEN -1
  ELSE IF chars[from + j + 1] = "]" THEN j
  ELSE position_elem(chars, from, j + 1)

\* parse_character_class over the 0-based index i of slice s.
RECURSIVE parse_character_class_from(_, _, _)
parse_character_class_from(s, i, cs) ==
  IF i >= Len(s) THEN cs
  ELSE IF i + 3 <= Len(s) /\ s[i + 2] = "-"
       THEN parse_character_class_from(s, i + 3, Append(cs, CharRange(s[i + 1], s[i + 3])))
       ELSE parse_character_class_from(s, i + 1, Append(cs, SingleChar(s[i + 1])))

parse_character_class(s) == parse_character_class_from(s, 0, <<>>)

\* `i <= chars.len() - k` on unsigned machine words: when len < k the
\* subtraction wraps to a value above every index, so the test is true.
LeLenMinus(i, len, k) == IF len >= k THEN i <= len - k ELSE TRUE

RECURSIVE StarRun(_, _)

\* A variant of the run count that stops counting at two.
StarRun_capped(chars, i) ==
  IF i < Len(chars) /\ chars[i + 1] = "*"
  THEN (IF i + 1 < Len(chars) /\ chars[i + 2] = "*" THEN 2 ELSE 1)
  ELSE 0

\* The number of consecutive '*' starting at 0-based index i.
StarRun(chars, i) ==
  IF i < Len(chars) /\ chars[i + 1] = "*" THEN 1 + StarRun(chars, i + 1) ELSE 0

\* A variant of the push for a valid `**` that, on a second one in a row,
\* takes the first away again.
push_recursive_pop(tokens) ==
  IF ~(Len(tokens) > 1 /\ tokens[Len(tokens)] = AnyRecursiveSequence)
  THEN Append(tokens, AnyRecursiveSequence)
  ELSE SubSeq(tokens, 1, Len(tokens) - 1)

\* Pushing AnyRecursiveSequence for a valid `**`: a second one in a row is
\* not pushed, which the code tests with tokens_len > 1.
push_recursive(tokens) ==
  IF ~(Len(tokens) > 1 /\ tokens[Len(tokens)] = AnyRecursiveSequence)
  THEN Append(tokens, AnyRecursiveSequence)
  ELSE tokens

\* The body of the while loop of Pattern::parse; i is the 0-based index.
RECURSIVE parse_from(_, _, _)
parse_from(chars, i, tokens) ==
  LET len == Len(chars) IN
  IF i >= len THEN ParseOk(tokens)
  ELSE LET ch == chars[i + 1] IN
    CASE ch = "?" -> parse_from(chars, i + 1, Append(tokens, AnyChar))
      [] ch = "*" ->
           LET old == i
               count == StarRun(chars, i)
               i2 == old + count
           IN IF count > 2 THEN ParseErr(old + 2)
              ELSE IF count = 2 THEN
                IF i2 = 2 \/ chars[i2 - count] = SEP
                THEN LET collapsed == push_recursive(tokens)
                     IN IF i2 < len /\ chars[i2 + 1] = SEP
                        THEN parse_from(chars, i2 + 1, collapsed)
                        ELSE IF i2 = len THEN parse_from(chars, i2, collapsed)
                        ELSE ParseErr(i2)
                ELSE ParseErr(old - 1)
              ELSE parse_from(chars, i2, Append(tokens, AnySequence))
      [] ch = "[" ->
           IF LeLenMinus(i, len, 4) /\ i + 1 >= len THEN ParsePanic
           ELSE IF LeLenMinus(i, len, 4) /\ chars[i + 2] = "!" THEN
             IF i + 3 > len THEN ParsePanic
             ELSE LET j == position_elem(chars, i + 3, 0) IN
               IF j = -1 THEN ParseErr(i)
               ELSE parse_from(chars, i + j + 4,
                      Append(tokens,
                        AnyExcept(parse_character_class(SubSeq(chars, i + 3, i + 3 + j)))))
           ELSE IF LeLenMinus(i, len, 3) /\ i + 1 >= len THEN ParsePanic
           ELSE IF LeLenMinus(i, len, 3) /\ chars[i + 2] # "!" THEN
             IF i + 2 > len THEN ParsePanic
             ELSE LET j == position_elem(chars, i + 2, 0) IN
               IF j = -1 THEN ParseErr(i)
               ELSE parse_from(chars, i + j + 3,
                      Append(tokens,
                        AnyWithin(parse_character_class(SubSeq(chars, i + 2, i + 2 + j)))))
           ELSE ParseErr(i)
      [] OTHER -> parse_from(chars, i + 1, Append(tokens, Char(ch)))

parse(pattern) == parse_from(pattern, 0, <<>>)


RECURSIVE escape(_)

\* A variant of Pattern::escape that leaves brackets as they are.
escape_wildcards_only(s) ==
  IF s = <<>> THEN <<>>
  ELSE (IF Head(s) \in {"?", "*"} THEN <<"[", Head(s), "]">> ELSE <<Head(s)>>)
       \o escape(Tail(s))

\* Pattern::escape: wrap each of ? * [ ] in a one-member bracket class.
escape(s) ==
  IF s = <<>> THEN <<>>
  ELSE LET c == Head(s) IN
    (IF c \in {"?", "*", "[", "]"} THEN <<"[", c, "]">> ELSE <<c>>) \o escape(Tail(s))

RECURSIVE emit_set(_)
emit_set(specs) ==
  IF specs = <<>> THEN <<>>
  ELSE LET spec == Head(specs) IN
    (IF spec.k = "SingleChar"
     THEN (IF spec.a = "\\" THEN <<"\\", "\\">> ELSE <<spec.a>>)
     ELSE <<spec.a, "-", spec.b>>) \o emit_set(Tail(specs))

RegexSpecials == {"\\", ".", "+", "*", "?", "(", ")", "|", "[", "]", "{", "}", "^", "$"}

escape_regex_char(c) == IF c \in RegexSpecials THEN <<"\\", c>> ELSE <<c>>

\* The regex text Pattern::compile builds from the tokens.
RECURSIVE compile_text(_)
compile_text(tokens) ==
  IF tokens = <<>> THEN <<"\\", "z", "(", "?", "m", "s", ")">>
  ELSE LET token == Head(tokens) IN
    (CASE token.t = "Char" -> escape_regex_char(token.c)
       [] token.t = "AnyChar" -> <<".">>
       [] token.t = "AnySequence" -> <<"[", "^">> \o escape_regex_char(SEP) \o <<"]", "*">>
       [] token.t = "AnyRecursiveSequence" -> <<".", "*">>
       [] token.t = "AnyWithin" -> <<"[">> \o emit_set(token.specs) \o <<"]">>
       [] token.t = "AnyExcept" -> <<"[", "^">> \o emit_set(token.specs) \o <<"]">>)
    \o compile_text(Tail(tokens))

(***************************************************************************)
(* The regex engine (regex 0.1), on the fragment of its syntax that the    *)
(* texts compile_text emits can hold: escapes, `.`, bracket classes, a     *)
(* postfix `*`, literal characters and flag groups `(?flags)`.  Characters *)
(* are compared by code point, and an escape stands for its value: `\a`    *)
(* is U+0007, not the letter.                                              *)
(***************************************************************************)
CharCode(c) ==
  CASE c = "\n" -> 10
    [] c = "!" -> 33 [] c = "$" -> 36 [] c = "(" -> 40 [] c = ")" -> 41
    [] c = "*" -> 42 [] c = "+" -> 43 [] c = "-" -> 45 [] c = "." -> 46
    [] c = "/" -> 47 [] c = "?" -> 63 [] c = "[" -> 91 [] c = "\\" -> 92
    [] c = "]" -> 93 [] c = "^" -> 94 [] c = "a" -> 97 [] c = "b" -> 98
    [] c = "c" -> 99 [] c = "d" -> 100 [] c = "m" -> 109 [] c = "s" -> 115
    [] c = "x" -> 120 [] c = "z" -> 122 [] c = "{" -> 123 [] c = "|" -> 124
    [] c = "}" -> 125

\* The code point of the control character an escape letter names.
BEL == 7

\* One alternative of a class: a set of code-point ranges, negated or not.
ClassPart(neg, ranges) == [neg |-> neg, ranges |-> ranges]

\* \d and \s as code-point ranges.
PerlClass(c) ==
  CASE c = "d" -> << <<48, 57>> >>
    [] c = "s" -> << <<9, 13>>, <<32, 32>> >>

\* Items of a parsed regex.  c is a code point; a class matches a character
\* that any of its parts matches.
ReChar(c) == [op |-> "char", c |-> c, nl |-> FALSE, parts |-> <<>>, star |-> FALSE]

\* `.`; nl tells whether it also matches a line feed (flag s).
ReAny(nl) == [op |-> "any", c |-> 0, nl |-> nl, parts |-> <<>>, star |-> FALSE]

ReEnd == [op |-> "end", c |-> 0, nl |-> FALSE, parts |-> <<>>, star |-> FALSE]

\* \b: a word character on exactly one side of the position.
ReWordBoundary == [op |-> "boundary", c |-> 0, nl |-> FALSE, parts |-> <<>>, star |-> FALSE]

ReClass(parts) == [op |-> "class", c |-> 0, nl |-> FALSE, parts |-> parts, star |-> FALSE]

ReOk(items) == [ok |-> TRUE, items |-> items, pos |-> 0]

\* The parser's error: pos is its 0-based index in the text when it gave up
\* (the length of the text when it ran off the end).
ReErr(pos) == [ok |-> FALSE, items |-> <<>>, pos |-> pos]

ClassOk(parts, next) == [ok |-> TRUE, parts |-> parts, next |-> next, pos |-> 0]

ClassErr(pos) == [ok |-> FALSE, parts |-> <<>>, next |-> 0, pos |-> pos]

\* parse_escape, for the backslash at 0-based index i.  The parser steps
\* onto the character after it (at): nothing there is an error at the end
\* of the text.  Escapable punctuation is that literal; \a is U+0007; \d
\* and \s are classes; \z and \b are assertions; \x wants a `{` next and
\* fails one character on without it; any other character is an invalid
\* escape, reported where it stands.
regex_escape(re, i) ==
  LET at == i + 1 IN
  IF at >= Len(re) THEN [kind |-> "err", val |-> 0, at |-> at, pos |-> Len(re)]
  ELSE LET c == re[at + 1] IN
    CASE c \in RegexSpecials -> [kind |-> "literal", val |-> CharCode(c), at |-> at, pos |-> 0]
      [] c = "a" -> [kind |-> "literal", val |-> BEL, at |-> at, pos |-> 0]
      [] c \in {"d", "s"} -> [kind |-> "class", val |-> 0, at |-> at, pos |-> 0]
      [] c = "z" -> [kind |-> "end", val |-> 0, at |-> at, pos |-> 0]
      [] c = "b" -> [kind |-> "boundary", val |-> 0, at |-> at, pos |-> 0]
      [] c = "x" /\ ~(at + 1 < Len(re) /\ re[at + 2] = "{") ->
           [kind |-> "err", val |-> 0, at |-> at, pos |-> at + 1]
      [] c \notin RegexSpecials \cup {"a", "d", "s", "z", "b", "x"} ->
           [kind |-> "err", val |-> 0, at |-> at, pos |-> at]

\* The alternatives of a finished class: its ranges (if any) under the
\* class's negation, and each \d or \s met inside it.
class_parts(neg, ranges, alts) ==
  (IF ranges # <<>> THEN <<ClassPart(neg, ranges)>> ELSE <<>>) \o alts

\* What stands at 0-based index i of a class: an escape, or the character
\* itself.
class_member(re, i) ==
  IF re[i + 1] = "\\" THEN regex_escape(re, i)
  ELSE [kind |-> "literal", val |-> CharCode(re[i + 1]), at |-> i, pos |-> 0]

\* The members of a bracket class from 0-based index i, up to its closing
\* `]`: single characters, escapes and lo-hi ranges whose start and end may
\* each be an escape.  The end of the text before the `]` is an error.
RECURSIVE regex_class_from(_, _, _, _, _)
RECURSIVE class_item(_, _, _, _, _, _)
RECURSIVE class_range(_, _, _, _, _, _)
regex_class_from(re, i, neg, ranges, alts) ==
  IF i >= Len(re) THEN ClassErr(Len(re))
  ELSE class_item(re, i, neg, ranges, alts, class_member(re, i))

\* The member esc read at index i.  An escape that is a class joins the
\* alternatives; an assertion is an error; a raw `]` closes a class that has
\* a member; a `-` after the member that is not last in the class makes it
\* the start of a range.
class_item(re, i, neg, ranges, alts, esc) ==
  IF esc.kind = "err" THEN ClassErr(esc.pos)
  ELSE IF esc.kind = "class"
  THEN regex_class_from(re, esc.at + 1, neg, ranges,
                        Append(alts, ClassPart(neg, PerlClass(re[esc.at + 1]))))
  ELSE IF esc.kind \in {"end", "boundary"} THEN ClassErr(esc.at)
  ELSE IF re[i + 1] = "]" /\ (ranges # <<>> \/ alts # <<>>)
  THEN ClassOk(class_parts(neg, ranges, alts), i + 1)
  ELSE IF /\ esc.at + 1 < Len(re)
          /\ re[esc.at + 2] = "-"
          /\ ~(esc.at + 2 < Len(re) /\ re[esc.at + 3] = "]")
  THEN IF esc.at + 2 >= Len(re) THEN ClassErr(Len(re))
       ELSE class_range(re, neg, ranges, alts, esc.val, class_member(re, esc.at + 2))
  ELSE regex_class_from(re, esc.at + 1, neg, Append(ranges, <<esc.val, esc.val>>), alts)

\* The range from c to the member esc2: its end must be a literal and not
\* below its start, both taken by value; the range then runs up to the
\* character the parser stands on.
class_range(re, neg, ranges, alts, c, esc2) ==
  IF esc2.kind = "err" THEN ClassErr(esc2.pos)
  ELSE IF esc2.kind # "literal" \/ esc2.val < c THEN ClassErr(esc2.at)
  ELSE regex_class_from(re, esc2.at + 1, neg,
                        Append(ranges, <<c, CharCode(re[esc2.at + 1])>>), alts)

\* The leading `-` members of a class.
RECURSIVE regex_class_dashes(_, _, _, _)
regex_class_dashes(re, i, neg, ranges) ==
  IF i < Len(re) /\ re[i + 1] = "-"
  THEN regex_class_dashes(re, i + 1, neg, Append(ranges, <<CharCode("-"), CharCode("-")>>))
  ELSE regex_class_from(re, i, neg, ranges, <<>>)

\* A bracket class whose `[` is at 0-based index i: an optional `^`, an
\* optional literal `]`, leading `-`s, then the members.
regex_class(re, i) ==
  LET neg == i + 1 < Len(re) /\ re[i + 2] = "^"
      i1 == IF neg THEN i + 2 ELSE i + 1
      bracket == i1 < Len(re) /\ re[i1 + 1] = "]"
      i2 == IF bracket THEN i1 + 1 ELSE i1
  IN regex_class_dashes(re, i2, neg,
                        IF bracket THEN << <<CharCode("]"), CharCode("]")>> >> ELSE <<>>)

RegexFlags == {"i", "m", "s", "U"}

\* The flags of a group `(?flags)` from 0-based index i, up to its `)`:
\* the text ending first is an error at its end, a character that is no
\* flag an error where it stands.
RECURSIVE regex_group_end(_, _, _)
regex_group_end(re, i, flags) ==
  IF i >= Len(re) THEN [ok |-> FALSE, next |-> 0, flags |-> flags, pos |-> Len(re)]
  ELSE IF re[i + 1] = ")" THEN [ok |-> TRUE, next |-> i + 1, flags |-> flags, pos |-> 0]
  ELSE IF re[i + 1] \in RegexFlags THEN regex_group_end(re, i + 1, flags \cup {re[i + 1]})
  ELSE [ok |-> FALSE, next |-> 0, flags |-> flags, pos |-> i]

\* The characters the parser gives a meaning of their own outside a class.
RegexOperators == {"\\", ".", "+", "*", "?", "(", ")", "|", "[", "{", "^", "$"}

\* The item an escape outside a class stands for.
escape_item(re, esc) ==
  CASE esc.kind = "literal" -> ReChar(esc.val)
    [] esc.kind = "class" -> ReClass(<<ClassPart(FALSE, PerlClass(re[esc.at + 1]))>>)
    [] esc.kind = "end" -> ReEnd
    [] esc.kind = "boundary" -> ReWordBoundary

\* The parse loop from 0-based index i, under the flags set so far.
RECURSIVE regex_parse_from(_, _, _, _)
RECURSIVE parse_escaped(_, _, _, _)
RECURSIVE parse_group(_, _, _)
RECURSIVE parse_bracket(_, _, _, _)
regex_parse_from(re, i, flags, items) ==
  IF i >= Len(re) THEN ReOk(items)
  ELSE
    CASE re[i + 1] = "\\" -> parse_escaped(re, flags, items, regex_escape(re, i))
      [] re[i + 1] = "." ->
           regex_parse_from(re, i + 1, flags, Append(items, ReAny("s" \in flags)))
      [] re[i + 1] = "*" /\ ~(i + 1 < Len(re) /\ re[i + 2] = "?") ->
           IF items = <<>> THEN ReErr(i)
           ELSE regex_parse_from(re, i + 1, flags, [items EXCEPT ![Len(items)].star = TRUE])
      [] re[i + 1] = "(" /\ i + 1 < Len(re) /\ re[i + 2] = "?" ->
           parse_group(re, items, regex_group_end(re, i + 2, flags))
      [] re[i + 1] = "[" -> parse_bracket(re, flags, items, regex_class(re, i))
      [] re[i + 1] \notin RegexOperators ->
           regex_parse_from(re, i + 1, flags, Append(items, ReChar(CharCode(re[i + 1]))))

parse_escaped(re, flags, items, esc) ==
  IF esc.kind = "err" THEN ReErr(esc.pos)
  ELSE regex_parse_from(re, esc.at + 1, flags, Append(items, escape_item(re, esc)))

parse_group(re, items, g) ==
  IF ~g.ok THEN ReErr(g.pos)
  ELSE regex_parse_from(re, g.next, g.flags, items)

parse_bracket(re, flags, items, cl) ==
  IF ~cl.ok THEN ReErr(cl.pos)
  ELSE regex_parse_from(re, cl.next, flags, Append(items, ReClass(cl.parts)))

\* Regex::new
Regex_new(re) == regex_parse_from(re, 0, {}, <<>>)

PartMatches(part, code) ==
  part.neg # (\E k \in 1..Len(part.ranges) :
                part.ranges[k][1] <= code /\ code <= part.ranges[k][2])

ItemMatches(it, c) ==
  CASE it.op = "char" -> CharCode(c) = it.c
    [] it.op = "any" -> it.nl \/ c # "\n"
    [] it.op = "class" -> \E p \in 1..Len(it.parts) : PartMatches(it.parts[p], CharCode(c))
    [] OTHER -> FALSE

\* A word character: a letter, a digit or `_`.
IsWord(c) == CharCode(c) \in (48..57) \cup (65..90) \cup {95} \cup (97..122)

\* The 0-based position pos of s has a word character on exactly one side.
AtWordBoundary(s, pos) ==
  (pos > 0 /\ IsWord(s[pos])) # (pos < Len(s) /\ IsWord(s[pos + 1]))

\* The items from the k-th on match s from 0-based position pos.
RECURSIVE match_from(_, _, _, _)
match_from(items, k, s, pos) ==
  IF k > Len(items) THEN TRUE
  ELSE LET it == items[k] IN
    IF it.op = "end" THEN pos = Len(s) /\ match_from(items, k + 1, s, pos)
    ELSE IF it.op = "boundary" THEN AtWordBoundary(s, pos) /\ match_from(items, k + 1, s, pos)
    ELSE IF it.star
    THEN \/ match_from(items, k + 1, s, pos)
         \/ /\ pos < Len(s)
            /\ ItemMatches(it, s[pos + 1])
            /\ match_from(items, k, s, pos + 1)
    ELSE /\ pos < Len(s)
         /\ ItemMatches(it, s[pos + 1])
         /\ match_from(items, k + 1, s, pos + 1)

\* Regex::is_match: a search, so the match may start at any position.
is_match(items, s) == \E start \in 0..Len(s) : match_from(items, 1, s, start)

\* Pattern::compile: the regex of the tokens, or the regex engine's error.
compile(tokens) == Regex_new(compile_text(tokens))

\* Pattern::new: parse, then compile.  kind is "ok", "err" (an Error value;
\* src tells which stage raised it; pos is the parse position, or the regex
\* parser's position in the emitted text, handed on) or "panic".
Pattern_new(pattern) ==
  LET p == parse(pattern) IN
  IF p.kind # "ok" THEN [kind |-> p.kind, src |-> "parse", pos |-> p.pos, re |-> <<>>]
  ELSE LET r == compile(p.tokens) IN
    IF r.ok THEN [kind |-> "ok", src |-> "", pos |-> 0, re |-> r.items]
    ELSE [kind |-> "err", src |-> "regex", pos |-> r.pos, re |-> <<>>]

\* Pattern::matches
matches(pat, str) == is_match(pat.re, str)

(***************************************************************************)
(* The filesystem the selectors consult.  fs = [dirs, files, unreadable,   *)
(* order]: the directories and the regular files, each named by its        *)
(* components from the filesystem root; the directories whose listing      *)
(* fails; and, for each directory, the order in which its listing returns  *)
(* its entries (the names, in any order the filesystem likes).  The        *)
(* working directory is the filesystem root, so `..` resolves to the root. *)
(***************************************************************************)
ROOT == <<"/">>

DOTDOT == <<".", ".">>

DOT == <<".">>

\* Path::join of one component onto a normalised path.
join(path, lit) ==
  IF lit = <<>> \/ lit = DOT THEN path
  ELSE IF lit = DOTDOT
  THEN IF path = <<>> THEN <<DOTDOT>>
       ELSE IF Last(path) = ROOT THEN path
       ELSE IF Last(path) = DOTDOT THEN Append(path, DOTDOT)
       ELSE ButLast(path)
  ELSE Append(path, lit)

\* Path::as_str
RECURSIVE JoinSep(_)
JoinSep(comps) ==
  IF comps = <<>> THEN <<>>
  ELSE IF Len(comps) = 1 THEN Head(comps)
  ELSE Head(comps) \o <<SEP>> \o JoinSep(Tail(comps))

as_str(path) ==
  IF path = <<>> THEN DOT
  ELSE IF Head(path) = ROOT THEN <<SEP>> \o JoinSep(Tail(path))
  ELSE JoinSep(path)

\* The filesystem node a path names.
RECURSIVE Resolve(_)
Resolve(path) ==
  IF path # <<>> /\ Head(path) \in {ROOT, DOTDOT} THEN Resolve(Tail(path)) ELSE path

exists(fs, path) == Resolve(path) = <<>> \/ Resolve(path) \in fs.dirs \cup fs.files

is_dir(fs, path) == Resolve(path) = <<>> \/ Resolve(path) \in fs.dirs

Children(fs, node) ==
  {q \in fs.dirs \cup fs.files : Len(q) = Len(node) + 1 /\ SubSeq(q, 1, Len(node)) = node}

\* readdir: Err for a directory that cannot be listed, else the entries in
\* the order the filesystem returns them for that directory (fs.order),
\* each joined onto the path that was listed.
readdir(fs, path) ==
  IF ~is_dir(fs, path) \/ Resolve(path) \in fs.unreadable
  THEN [ok |-> FALSE, val |-> <<>>]
  ELSE LET listed == fs.order[Resolve(path)]
       IN [ok |-> TRUE, val |-> [k \in 1..Len(listed) |-> join(path, listed[k])]]

\* Pattern::matches_path
matches_path(pat, path) == matches(pat, as_str(path))

(***************************************************************************)
(* glob.rs: the directory walker and its one-step lookahead                *)
(***************************************************************************)
\* A variant of FilterDirs that keeps every entry, directory or not: with it
\* the walker would hand out regular files.
FilterDirs_keep_all(fs, paths) == paths

RECURSIVE FilterDirs(_, _)
FilterDirs(fs, paths) ==
  IF paths = <<>> THEN <<>>
  ELSE (IF is_dir(fs, Head(paths)) THEN <<Head(paths)>> ELSE <<>>) \o FilterDirs(fs, Tail(paths))

\* A variant of Directories::next that never descends: it pops a directory
\* without pushing its subdirectories.
Directories_next_flat(fs, stack) ==
  IF stack = <<>> THEN [item |-> None, stack |-> stack]
  ELSE [item |-> Some(Last(stack)), stack |-> ButLast(stack)]

\* Directories::next on a stack: the item returned and the stack left.
Directories_next(fs, stack) ==
  IF stack = <<>> THEN [item |-> None, stack |-> stack]
  ELSE LET path == Last(stack)
           rd == readdir(fs, path)
           pushed == IF rd.ok THEN FilterDirs(fs, rd.val) ELSE <<>>
       IN [item |-> Some(path), stack |-> ButLast(stack) \o pushed]

\* walk_dir(path).peekable()
walk_dir(path) == [stack |-> <<path>>, has_peeked |-> FALSE, peeked |-> None]

\* Peekable::peek: the walker with its lookahead filled.
peek(fs, w) ==
  IF w.has_peeked THEN w
  ELSE LET n == Directories_next(fs, w.stack)
       IN [stack |-> n.stack, has_peeked |-> TRUE, peeked |-> n.item]

\* Peekable::next: the item and the walker left.
Peekable_next(fs, w) ==
  IF w.has_peeked
  THEN [item |-> w.peeked, w |-> [stack |-> w.stack, has_peeked |-> FALSE, peeked |-> None]]
  ELSE LET n == Directories_next(fs, w.stack)
       IN [item |-> n.item, w |-> [stack |-> n.stack, has_peeked |-> FALSE, peeked |-> None]]

(***************************************************************************)
(* glob.rs: the selector chain.  A chain is the sequence of its nodes,     *)
(* head first; the successor of node i is node i + 1.                      *)
(***************************************************************************)
NoEntries == [some |-> FALSE, val |-> <<>>]

NoWalker == [some |-> FALSE, val |-> walk_dir(<<>>)]

Precise(pattern) ==
  [kind |-> "Precise", pattern |-> pattern, re |-> <<>>,
   entries |-> NoEntries, directories |-> NoWalker, terminated |-> FALSE]

Wildcard(pattern, compiled) ==
  [kind |-> "Wildcard", pattern |-> pattern, re |-> compiled.re,
   entries |-> NoEntries, directories |-> NoWalker, terminated |-> FALSE]

Recursive ==
  [kind |-> "Recursive", pattern |-> <<>>, re |-> <<>>,
   entries |-> NoEntries, directories |-> NoWalker, terminated |-> FALSE]

Terminating ==
  [kind |-> "Terminating", pattern |-> <<>>, re |-> <<>>,
   entries |-> NoEntries, directories |-> NoWalker, terminated |-> FALSE]

\* pattern.split(is_sep)
RECURSIVE split_from(_, _)
split_from(chars, cur) ==
  IF chars = <<>> THEN <<cur>>
  ELSE IF Head(chars) = SEP THEN <<cur>> \o split_from(Tail(chars), <<>>)
  ELSE split_from(Tail(chars), Append(cur, Head(chars)))

split(pattern) == split_from(pattern, <<>>)

RECURSIVE collapse(_, _)

\* A variant of the collapsing loop that, when it drops a repeated `**`,
\* drops the component after it as well.
collapse_skip(comps, was_recursive) ==
  IF comps = <<>> THEN <<>>
  ELSE IF Head(comps) = <<"*", "*">>
  THEN IF was_recursive
       THEN (IF Len(comps) > 1 THEN collapse(Tail(Tail(comps)), FALSE) ELSE <<>>)
       ELSE <<Head(comps)>> \o collapse(Tail(comps), TRUE)
  ELSE <<Head(comps)>> \o collapse(Tail(comps), FALSE)

\* A variant of the collapsing loop that keeps every component.
collapse_none(comps, was_recursive) == comps

\* The loop of from_pattern that drops a `**` component following another.
collapse(comps, was_recursive) ==
  IF comps = <<>> THEN <<>>
  ELSE IF Head(comps) = <<"*", "*">>
  THEN IF was_recursive THEN collapse(Tail(comps), TRUE)
       ELSE <<Head(comps)>> \o collapse(Tail(comps), TRUE)
  ELSE <<Head(comps)>> \o collapse(Tail(comps), FALSE)

\* WILDCARD.is_match(pattern): the component contains `[`, `*` or `?`.
WILDCARD(pattern) == \E k \in 1..Len(pattern) : pattern[k] \in {"[", "*", "?"}

BuildOk(chain) == [kind |-> "ok", chain |-> chain]

BuildFail(kind) == [kind |-> kind, chain |-> <<>>]

RECURSIVE from_components(_)
from_components(patterns) ==
  IF patterns # <<>>
  THEN LET pattern == Head(patterns)
           rest == from_components(Tail(patterns))
       IN IF pattern = <<"*", "*">>
          THEN IF rest.kind # "ok" THEN rest ELSE BuildOk(<<Recursive>> \o rest.chain)
          ELSE IF WILDCARD(pattern)
          THEN LET compiled == Pattern_new(pattern) IN
               IF compiled.kind # "ok" THEN BuildFail(compiled.kind)
               ELSE IF rest.kind # "ok" THEN rest
               ELSE BuildOk(<<Wildcard(pattern, compiled)>> \o rest.chain)
          ELSE IF rest.kind # "ok" THEN rest ELSE BuildOk(<<Precise(pattern)>> \o rest.chain)
  ELSE BuildOk(<<Terminating>>)

from_pattern(pattern) ==
  LET compiled == Pattern_new(pattern) IN
  IF compiled.kind # "ok" THEN BuildFail(compiled.kind)
  ELSE from_components(collapse(split(pattern), FALSE))

is_terminating(node) == node.kind = "Terminating"

\* What a select_from call gives back: the value returned, the chain as the
\* call left it, and whether the call panicked instead of returning.
Ret(ret, chain) == [ret |-> ret, chain |-> chain, panic |-> FALSE]

Panicked(chain) == [ret |-> None, chain |-> chain, panic |-> TRUE]

RECURSIVE select_from(_, _, _, _, _)
RECURSIVE wildcard_loop(_, _, _, _, _)
RECURSIVE recursive_loop(_, _, _, _, _)

\* A variant of the Precise arm that does not ask whether path is a
\* directory before it joins.
precise_arm_unchecked(fs, chain, i, path, dir_only) ==
  LET joined == join(path, chain[i].pattern) IN
  IF exists(fs, joined)
  THEN select_from(fs, chain, i + 1, joined, dir_only)
  ELSE Ret(None, chain)

\* A variant of the Terminating arm that never sets its flag, so it returns
\* the path on every call.
terminating_arm_sticky(fs, chain, i, path, dir_only) ==
  IF ~dir_only \/ (dir_only /\ is_dir(fs, path))
  THEN Ret(Some(path), chain)
  ELSE Ret(None, chain)

\* A variant of the Precise arm that does not ask whether the joined path
\* exists.
precise_arm_no_exists(fs, chain, i, path, dir_only) ==
  IF is_dir(fs, path)
  THEN select_from(fs, chain, i + 1, join(path, chain[i].pattern), dir_only)
  ELSE Ret(None, chain)

\* The Precise arm.
precise_arm(fs, chain, i, path, dir_only) ==
  LET joined == join(path, chain[i].pattern) IN
  IF is_dir(fs, path) /\ exists(fs, joined)
  THEN select_from(fs, chain, i + 1, joined, dir_only)
  ELSE Ret(None, chain)

\* One turn of the Wildcard arm's loop for an entry that matches and whose
\* successor is Terminating; rest is what ents holds after the pop.
wildcard_yield(fs, chain, i, entry, rest, dir_only) ==
  IF dir_only /\ ~is_dir(fs, entry) THEN Ret(None, chain)
  ELSE Ret(Some(entry), [chain EXCEPT ![i].entries = Some(rest)])

\* A variant of the Wildcard loop that gives up at the first entry that does
\* not match instead of going on to the next.
wildcard_loop_break(fs, chain, i, ents, dir_only) ==
  IF ents = <<>> THEN Ret(None, chain)
  ELSE LET entry == Last(ents)
           rest == ButLast(ents)
       IN IF ~matches_path(chain[i], entry) THEN Ret(None, chain)
          ELSE IF is_terminating(chain[i + 1])
          THEN wildcard_yield(fs, chain, i, entry, rest, dir_only)
          ELSE LET r == select_from(fs, chain, i + 1, entry, dir_only) IN
               IF r.panic THEN r
               ELSE IF ~r.ret.some THEN wildcard_loop(fs, r.chain, i, rest, dir_only)
               ELSE Ret(r.ret, [r.chain EXCEPT ![i].entries = Some(Append(rest, entry))])

\* A variant of the Wildcard loop that does not push the entry back before
\* it saves the remaining entries on a match of the successor.
wildcard_loop_drop(fs, chain, i, ents, dir_only) ==
  IF ents = <<>> THEN Ret(None, chain)
  ELSE LET entry == Last(ents)
           rest == ButLast(ents)
       IN IF ~matches_path(chain[i], entry) THEN wildcard_loop(fs, chain, i, rest, dir_only)
          ELSE IF is_terminating(chain[i + 1])
          THEN wildcard_yield(fs, chain, i, entry, rest, dir_only)
          ELSE LET r == select_from(fs, chain, i + 1, entry, dir_only) IN
               IF r.panic THEN r
               ELSE IF ~r.ret.some THEN wildcard_loop(fs, r.chain, i, rest, dir_only)
               ELSE Ret(r.ret, [r.chain EXCEPT ![i].entries = Some(rest)])

\* The `while let Some(entry) = ents.pop()` loop of the Wildcard arm.
wildcard_loop(fs, chain, i, ents, dir_only) ==
  IF ents = <<>> THEN Ret(None, chain)
  ELSE LET entry == Last(ents)
           rest == ButLast(ents)
       IN IF ~matches_path(chain[i], entry) THEN wildcard_loop(fs, chain, i, rest, dir_only)
          ELSE IF is_terminating(chain[i + 1])
          THEN wildcard_yield(fs, chain, i, entry, rest, dir_only)
          ELSE LET r == select_from(fs, chain, i + 1, entry, dir_only) IN
               IF r.panic THEN r
               ELSE IF ~r.ret.some THEN wildcard_loop(fs, r.chain, i, rest, dir_only)
               ELSE Ret(r.ret, [r.chain EXCEPT ![i].entries = Some(Append(rest, entry))])

\* A variant of the Wildcard arm that reads its saved entries without
\* taking them out of the node.
wildcard_arm_keep(fs, chain, i, path, dir_only) ==
  IF ~is_dir(fs, path) THEN Ret(None, chain)
  ELSE IF chain[i].entries.some
    THEN wildcard_loop(fs, chain, i, chain[i].entries.val, dir_only)
    ELSE LET rd == readdir(fs, path) IN
         IF ~rd.ok THEN Panicked(chain)
         ELSE wildcard_loop(fs, chain, i, rd.val, dir_only)

\* The Wildcard arm: entries.take(), or the listing of path, unwrapped.
wildcard_arm(fs, chain, i, path, dir_only) ==
  IF ~is_dir(fs, path) THEN Ret(None, chain)
  ELSE LET taken == [chain EXCEPT ![i].entries = NoEntries] IN
    IF chain[i].entries.some
    THEN wildcard_loop(fs, taken, i, chain[i].entries.val, dir_only)
    ELSE LET rd == readdir(fs, path) IN
         IF ~rd.ok THEN Panicked(taken)
         ELSE wildcard_loop(fs, taken, i, rd.val, dir_only)

\* A variant of the Recursive loop that advances the walker past the
\* directory before it saves it on a match of the successor.
recursive_loop_advance(fs, chain, i, dirs, dir_only) ==
  LET pk == peek(fs, dirs) IN
  IF ~pk.peeked.some THEN Ret(None, chain)
  ELSE IF is_terminating(chain[i + 1])
  THEN LET n == Peekable_next(fs, pk)
       IN Ret(n.item, [chain EXCEPT ![i].directories = Some(n.w)])
  ELSE LET r == select_from(fs, chain, i + 1, pk.peeked.val, dir_only) IN
       IF r.panic THEN r
       ELSE IF ~r.ret.some
       THEN recursive_loop(fs, r.chain, i, Peekable_next(fs, pk).w, dir_only)
       ELSE Ret(r.ret, [r.chain EXCEPT ![i].directories = Some(Peekable_next(fs, pk).w)])

\* The `loop` of the Recursive arm.
recursive_loop(fs, chain, i, dirs, dir_only) ==
  LET pk == peek(fs, dirs) IN
  IF ~pk.peeked.some THEN Ret(None, chain)
  ELSE IF is_terminating(chain[i + 1])
  THEN LET n == Peekable_next(fs, pk)
       IN Ret(n.item, [chain EXCEPT ![i].directories = Some(n.w)])
  ELSE LET r == select_from(fs, chain, i + 1, pk.peeked.val, dir_only) IN
       IF r.panic THEN r
       ELSE IF ~r.ret.some
       THEN recursive_loop(fs, r.chain, i, Peekable_next(fs, pk).w, dir_only)
       ELSE Ret(r.ret, [r.chain EXCEPT ![i].directories = Some(pk)])

\* The Recursive arm: directories.take(), or a new walker rooted at path.
recursive_arm(fs, chain, i, path, dir_only) ==
  IF ~is_dir(fs, path) THEN Ret(None, chain)
  ELSE recursive_loop(fs, [chain EXCEPT ![i].directories = NoWalker], i,
         IF chain[i].directories.some THEN chain[i].directories.val ELSE walk_dir(path),
         dir_only)

\* The Terminating arm.
terminating_arm(fs, chain, i, path, dir_only) ==
  IF chain[i].terminated
  THEN Ret(None, [chain EXCEPT ![i].terminated = FALSE])
  ELSE IF ~dir_only \/ (dir_only /\ is_dir(fs, path))
       THEN Ret(Some(path), [chain EXCEPT ![i].terminated = TRUE])
       ELSE Ret(None, [chain EXCEPT ![i].terminated = TRUE])

\* Selector::select_from on node i of the chain.
select_from(fs, chain, i, path, dir_only) ==
  CASE chain[i].kind = "Precise" -> precise_arm(fs, chain, i, path, dir_only)
    [] chain[i].kind = "Wildcard" -> wildcard_arm(fs, chain, i, path, dir_only)
    [] chain[i].kind = "Recursive" -> recursive_arm(fs, chain, i, path, dir_only)
    [] chain[i].kind = "Terminating" -> terminating_arm(fs, chain, i, path, dir_only)

(***************************************************************************)
(* The select_from calls one call sets off, in the order they are made:    *)
(* which node is called, with which path, and whether it returns a path.   *)
(***************************************************************************)
Call(i, path, some) == [node |-> i, path |-> path, some |-> some]

RECURSIVE calls_below(_, _, _, _, _)
RECURSIVE wildcard_calls(_, _, _, _, _)
RECURSIVE recursive_calls(_, _, _, _, _)

\* The successor calls of the Wildcard arm's loop.
wildcard_calls(fs, chain, i, ents, dir_only) ==
  IF ents = <<>> THEN <<>>
  ELSE LET entry == Last(ents)
           rest == ButLast(ents)
       IN IF ~matches_path(chain[i], entry) THEN wildcard_calls(fs, chain, i, rest, dir_only)
          ELSE IF is_terminating(chain[i + 1]) THEN <<>>
          ELSE LET r == select_from(fs, chain, i + 1, entry, dir_only) IN
               <<Call(i + 1, entry, r.ret.some)>>
               \o calls_below(fs, chain, i + 1, entry, dir_only)
               \o (IF r.panic \/ r.ret.some THEN <<>>
                   ELSE wildcard_calls(fs, r.chain, i, rest, dir_only))

\* The successor calls of the Recursive arm's loop.
recursive_calls(fs, chain, i, dirs, dir_only) ==
  LET pk == peek(fs, dirs) IN
  IF ~pk.peeked.some THEN <<>>
  ELSE IF is_terminating(chain[i + 1]) THEN <<>>
  ELSE LET r == select_from(fs, chain, i + 1, pk.peeked.val, dir_only) IN
       <<Call(i + 1, pk.peeked.val, r.ret.some)>>
       \o calls_below(fs, chain, i + 1, pk.peeked.val, dir_only)
       \o (IF r.panic \/ r.ret.some THEN <<>>
           ELSE recursive_calls(fs, r.chain, i, Peekable_next(fs, pk).w, dir_only))

\* The calls that the call of select_from on node i with path sets off.
calls_below(fs, chain, i, path, dir_only) ==
  CASE chain[i].kind = "Precise" ->
         IF is_dir(fs, path) /\ exists(fs, join(path, chain[i].pattern))
         THEN LET joined == join(path, chain[i].pattern)
                  r == select_from(fs, chain, i + 1, joined, dir_only)
              IN <<Call(i + 1, joined, r.ret.some)>>
                 \o calls_below(fs, chain, i + 1, joined, dir_only)
         ELSE <<>>
    [] chain[i].kind = "Wildcard" ->
         IF ~is_dir(fs, path) THEN <<>>
         ELSE IF chain[i].entries.some
         THEN wildcard_calls(fs, [chain EXCEPT ![i].entries = NoEntries], i,
                             chain[i].entries.val, dir_only)
         ELSE IF ~readdir(fs, path).ok THEN <<>>
         ELSE wildcard_calls(fs, [chain EXCEPT ![i].entries = NoEntries], i,
                             readdir(fs, path).val, dir_only)
    [] chain[i].kind = "Recursive" ->
         IF ~is_dir(fs, path) THEN <<>>
         ELSE recursive_calls(fs, [chain EXCEPT ![i].directories = NoWalker], i,
                IF chain[i].directories.some THEN chain[i].directories.val
                ELSE walk_dir(path),
                dir_only)
    [] chain[i].kind = "Terminating" -> <<>>

\* The call of select_from on node i and every call it sets off.
calls_from(fs, chain, i, path, dir_only) ==
  <<Call(i, path, select_from(fs, chain, i, path, dir_only).ret.some)>>
  \o calls_below(fs, chain, i, path, dir_only)

(***************************************************************************)
(* glob.rs: the facade                                                     *)
(***************************************************************************)
\* Path::new(pattern).root_path(): the root of an absolute pattern.
root_path(pattern) ==
  IF pattern # <<>> /\ Head(pattern) = SEP THEN Some(<<ROOT>>) ELSE None

Min(a, b) == IF a <= b THEN a ELSE b

\* glob(pattern): Ok(Paths{scope, selector, is_dir}), an Err, or a panic.
glob(pattern) ==
  LET root == root_path(pattern)
      root_len == IF root.some THEN 1 ELSE 0
      scope == IF root.some THEN root.val ELSE <<>>
      trimmed == SubSeq(pattern, Min(root_len, Len(pattern)) + 1, Len(pattern))
      built == from_pattern(trimmed)
  IN [kind |-> built.kind,
      scope |-> scope,
      selector |-> built.chain,
      is_dir |-> pattern # <<>> /\ Last(pattern) = SEP]

\* Iterator::collect on a Paths value: the paths its pulls return up to the
\* first None, in order (and whether a pull panicked instead).
RECURSIVE collect_from(_, _, _, _, _)
collect_from(f, chain, from, d, acc) ==
  LET r == select_from(f, chain, 1, from, d) IN
  IF r.panic THEN [paths |-> acc, panic |-> TRUE]
  ELSE IF ~r.ret.some THEN [paths |-> acc, panic |-> FALSE]
  ELSE collect_from(f, r.chain, from, d, Append(acc, r.ret.val))

collect(f, paths) == collect_from(f, paths.selector, paths.scope, paths.is_dir, <<>>)

\* glob_set of the tests: the set of the paths glob(pattern) yields.
glob_set(f, p) == SeqToSet(collect(f, glob(p)).paths)

(***************************************************************************)
(* The inputs: every filesystem over UniversePaths in which each path is   *)
(* absent, a regular file or a directory and only a directory has          *)
(* children; every pattern of at most MaxComps components of Components.   *)
(***************************************************************************)
A == <<"a">>

B == <<"b">>

BA == <<"b", "a">>

UniversePaths == {<<A>>, <<BA>>, <<A, A>>, <<A, B>>, <<A, A, A>>}

\* Every tree over UniversePaths in which a path has a directory for parent.
Trees ==
  {t \in [dirs : SUBSET UniversePaths, files : SUBSET UniversePaths] :
     /\ t.dirs \cap t.files = {}
     /\ \A q \in t.dirs \cup t.files : Len(q) > 1 => ButLast(q) \in t.dirs}

\* The orders in which a set of names can be listed.
Perms(names) ==
  {f \in [1..Cardinality(names) -> names] :
     \A i, j \in 1..Cardinality(names) : i # j => f[i] # f[j]}

\* The names of the entries a directory holds.
ChildNames(t, node) == {Last(q) : q \in Children(t, node)}

\* Every way of giving each directory of ds a listing order of its own.
RECURSIVE Listings(_, _)
Listings(t, ds) ==
  IF ds = {} THEN {[d \in {} |-> <<>>]}
  ELSE LET d == CHOOSE x \in ds : TRUE IN
       {(d :> p) @@ f : p \in Perms(ChildNames(t, d)), f \in Listings(t, ds \ {d})}

\* The listing orders a filesystem can have: any order, directory by
\* directory (the working directory included).
Orders(t) == Listings(t, t.dirs \cup {<<>>})

Components == {A, <<"*">>, <<"a", "*">>, <<"*", "*">>, <<>>}

MaxComps == 3

MaxPullsAfterEnd == 1

MaxOut == 30

Patterns == {JoinSep(cs) : cs \in UNION {[1..n -> Components] : n \in 1..MaxComps}}

VARIABLES
  fs,        \* the filesystem
  pattern,   \* the pattern given to glob
  status,    \* "active": glob returned Ok(Paths); "error": it returned Err;
             \* "panic": glob or a pull panicked
  scope,     \* Paths.scope
  selector,  \* Paths.selector
  dir_only,  \* Paths.is_dir
  out,       \* what the calls of Paths::next returned so far, in order
  subject,   \* the string handed to Pattern::escape / Pattern::matches
  escaped,   \* whether pattern is Pattern::escape(subject)
  compiled,  \* what Pattern::new(pattern) returned, or NotBuilt
  answer     \* what Pattern::matches returned, if it was called

vars == <<fs, pattern, status, scope, selector, dir_only, out,
          subject, escaped, compiled, answer>>

\* Pattern::new has not been called.
NotBuilt == [kind |-> "none", src |-> "", pos |-> 0, re |-> <<>>]

\* Pattern::matches has not been called / has returned b.
NoAnswer == [some |-> FALSE, val |-> FALSE]

Answer(b) == [some |-> TRUE, val |-> b]

\* The caller uses glob only: no Pattern value of its own.
NoPatternUse ==
  /\ subject = <<>>
  /\ escaped = FALSE
  /\ compiled = NotBuilt
  /\ answer = NoAnswer

\* The position of the first None in out, or 0.
RECURSIVE FirstNone(_, _)
FirstNone(o, k) ==
  IF k > Len(o) THEN 0 ELSE IF ~o[k].some THEN k ELSE FirstNone(o, k + 1)

Ended == FirstNone(out, 1) # 0

\* The fields of the Paths value glob(p) returns, and how the call ended.
Constructed(p, g) ==
  [pattern |-> p,
   status |-> IF g.kind = "ok" THEN "active" ELSE IF g.kind = "err" THEN "error" ELSE "panic",
   scope |-> g.scope,
   selector |-> g.selector,
   dir_only |-> g.is_dir]

Construct(p) ==
  \E c \in {Constructed(p, glob(p))} :
  /\ pattern = c.pattern
  /\ status = c.status
  /\ scope = c.scope
  /\ selector = c.selector
  /\ dir_only = c.dir_only
  /\ out = <<>>

\* Every directory can be listed.
Init ==
  /\ NoPatternUse
  /\ \E p \in Patterns : Construct(p)
  /\ \E t \in Trees : \E o \in Orders(t) :
       fs = [dirs |-> t.dirs, files |-> t.files, unreadable |-> {}, order |-> o]

\* At most one directory (the working directory included) cannot be listed.
InitErr ==
  /\ NoPatternUse
  /\ \E p \in Patterns : Construct(p)
  /\ \E t \in Trees :
       \E u \in {v \in SUBSET (t.dirs \cup {<<>>}) : Cardinality(v) <= 1} :
         \E o \in Orders(t) :
           fs = [dirs |-> t.dirs, files |-> t.files, unreadable |-> u, order |-> o]

\* Paths::next
Paths_next ==
  /\ status = "active"
  /\ Len(out) < MaxOut
  /\ Ended => Len(out) - FirstNone(out, 1) < MaxPullsAfterEnd
  /\ \E r \in {select_from(fs, selector, 1, scope, dir_only)} :
       /\ status' = (IF r.panic THEN "panic" ELSE "active")
       /\ selector' = r.chain
       /\ out' = IF r.panic THEN out ELSE Append(out, r.ret)
  /\ UNCHANGED <<fs, pattern, scope, dir_only, subject, escaped, compiled, answer>>

Next == Paths_next

Spec == Init /\ [][Next]_vars

\* The caller's loop, Iterator::collect as glob_set uses it: it pulls as
\* long as no pull has returned None, and stops at the first None.
CollectPull == ~Ended /\ Paths_next

\* CollectPull can act: the guard of Paths_next before the first None.
\* Whenever it holds the step appends to out or changes status, so this is
\* ENABLED <<CollectPull>>_vars.
CollectEnabled ==
  /\ status = "active"
  /\ ~Ended
  /\ Len(out) < MaxOut

\* collect does not stop before the first None.  This is
\* WF_vars(CollectPull) by definition, with ENABLED <<CollectPull>>_vars
\* written as the guard CollectEnabled.  No pull after the first None is
\* required; Next still allows one, as a caller may make it.
PullFairness == []<>(~CollectEnabled) \/ []<><<CollectPull>>_vars

SpecFair == Init /\ [][Next]_vars /\ PullFairness

SpecErr == InitErr /\ [][Next]_vars

(***************************************************************************)
(* pattern.rs used on its own: a caller builds a Pattern from a text, or   *)
(* from the escape of a string, and asks whether it matches a string.      *)
(***************************************************************************)
MaxPatLen == 4

MaxPatComps == 4

MaxClassLen == 3

MaxStrLen == 4

MaxEscLen == 3

\* Every string over the alphabet of at most n characters.
Strings(alphabet, n) == UNION {[1..k -> alphabet] : k \in 0..n}

\* Texts of names, separators, `*` runs and `?`.
CharPatterns == Strings({"a", "/", "*", "?"}, MaxPatLen)

\* Texts whose components are a name or `**`.
ComponentPatterns ==
  {JoinSep(cs) : cs \in UNION {[1..n -> {A, <<"*", "*">>}] : n \in 1..MaxPatComps}}

ClassBodies == Strings({"a", "c", "-", "^", "]", "\\"}, MaxClassLen) \ {<<>>}

\* One bracket class, plain or negated.
ClassPatterns ==
  {<<"[">> \o b \o <<"]">> : b \in ClassBodies}
    \cup {<<"[", "!">> \o b \o <<"]">> : b \in ClassBodies}

\* Texts with brackets that may or may not close.
BracketPatterns == Strings({"a", "[", "]", "!"}, MaxPatLen)

PatternTexts == CharPatterns \cup ComponentPatterns \cup ClassPatterns \cup BracketPatterns

Subjects ==
  Strings({"a", "/"}, MaxStrLen) \cup {<<c>> : c \in {"a", "b", "c", "d", "-", "^", "]", "\\"}}

EscapeSubjects == Strings({"a", "?", "*", "[", "]"}, MaxEscLen)

\* The caller holds a pattern text and has called nothing yet.
InitPattern ==
  /\ fs = [dirs |-> {}, files |-> {}, unreadable |-> {}, order |-> (<<>> :> <<>>)]
  /\ status = "idle"
  /\ scope = <<>>
  /\ selector = <<>>
  /\ dir_only = FALSE
  /\ out = <<>>
  /\ pattern \in PatternTexts
  /\ subject = <<>>
  /\ escaped = FALSE
  /\ compiled = NotBuilt
  /\ answer = NoAnswer

\* Pattern::escape(s): the caller takes its pattern text from a string.
Pattern_escape ==
  /\ status = "idle"
  /\ pattern = <<>> /\ ~escaped /\ compiled = NotBuilt
  /\ \E s \in EscapeSubjects :
       /\ subject' = s
       /\ pattern' = escape(s)
       /\ escaped' = TRUE
  /\ UNCHANGED <<fs, status, scope, selector, dir_only, out, compiled, answer>>

\* Pattern::new(pattern)
Pattern_new_call ==
  /\ status = "idle"
  /\ compiled = NotBuilt
  /\ compiled' = Pattern_new(pattern)
  /\ UNCHANGED <<fs, pattern, status, scope, selector, dir_only, out, subject, escaped, answer>>

\* Pattern::matches(s) on the Pattern that was built; after an escape the
\* string asked about is the one that was escaped.
Pattern_matches ==
  /\ status = "idle"
  /\ compiled.kind = "ok"
  /\ ~answer.some
  /\ \E s \in (IF escaped THEN {subject} ELSE Subjects) :
       /\ subject' = s
       /\ answer' = Answer(matches(compiled, s))
  /\ UNCHANGED <<fs, pattern, status, scope, selector, dir_only, out, escaped, compiled>>

NextPattern == Pattern_escape \/ Pattern_new_call \/ Pattern_matches

SpecPattern == InitPattern /\ [][NextPattern]_vars

(***************************************************************************)
(* What the properties below speak of                                      *)
(***************************************************************************)
\* The paths pulled before the first end-of-stream, in order.
Yielded ==
  LET e == FirstNone(out, 1)
  IN [k \in 1..(IF e = 0 THEN Len(out) ELSE e - 1) |-> out[k].val]

YieldedSet == SeqToSet(Yielded)

\* A fresh Paths value has just returned its first end-of-stream.
Drained == status = "active" /\ Ended /\ FirstNone(out, 1) = Len(out)

\* The components of the pattern once its root is stripped.
PatComps == split(IF root_path(pattern).some THEN Tail(pattern) ELSE pattern)

Nodes == fs.dirs \cup fs.files

IsDirectory(path) == Resolve(path) \in fs.dirs \cup {<<>>}

IsLiteral(c) == c # <<>> /\ ~WILDCARD(c) /\ c # DOT /\ c # DOTDOT

\* The position of the first `**` component, or 0.
RECURSIVE FirstRecursive(_, _)
FirstRecursive(cs, k) ==
  IF k > Len(cs) THEN 0 ELSE IF cs[k] = <<"*", "*">> THEN k ELSE FirstRecursive(cs, k + 1)

RecIdx == FirstRecursive(PatComps, 1)

\* The pattern is X/**/R with X a (possibly empty) chain of literal names.
HasLiteralPrefix == RecIdx # 0 /\ \A k \in 1..(RecIdx - 1) : IsLiteral(PatComps[k])

XPath == scope \o SubSeq(PatComps, 1, RecIdx - 1)

RComps == SubSeq(PatComps, RecIdx + 1, Len(PatComps))

\* Every directory of the subtree rooted at x, x included.
SubtreeDirs(x) ==
  {x \o SubSeq(n, Len(Resolve(x)) + 1, Len(n)) :
     n \in {m \in fs.dirs \cup {<<>>} :
              /\ IsDirectory(x)
              /\ Len(m) >= Len(Resolve(x))
              /\ SubSeq(m, 1, Len(Resolve(x))) = Resolve(x)}}

\* The set the components cs produce when applied from the path d.
ProducedFrom(cs, d) ==
  SeqToSet(collect_from(fs, from_components(collapse(cs, FALSE)).chain, d, dir_only, <<>>).paths)

\* A component matches a name taken alone and in full.
FullMatch(c, name) ==
  IF WILDCARD(c) THEN match_from(Pattern_new(c).re, 1, name, 0) ELSE name = c

(***************************************************************************)
(* C1: for a pattern of literal and wildcard components only, the paths    *)
(* pulled up to the first end-of-stream are exactly the existing paths     *)
(* under the scope whose i-th name is matched in full by the i-th          *)
(* component.                                                              *)
(***************************************************************************)
C1_Plain ==
  \A k \in 1..Len(PatComps) :
    PatComps[k] \notin {<<>>, <<"*", "*">>, DOT, DOTDOT}

C1_Expected ==
  {scope \o n : n \in {m \in Nodes : /\ Len(m) = Len(PatComps)
                                     /\ \A k \in 1..Len(m) : FullMatch(PatComps[k], m[k])}}

C1_FullNameMatch == (Drained /\ C1_Plain) => YieldedSet = C1_Expected

(***************************************************************************)
(* C2: once a pull has returned end-of-stream, every later pull on the     *)
(* same Paths value returns end-of-stream.                                 *)
(***************************************************************************)
C2_StaysExhausted ==
  \A k \in 1..Len(out) : (Ended /\ k > FirstNone(out, 1)) => ~out[k].some

(***************************************************************************)
(* C3: no path is pulled twice before the first end-of-stream.             *)
(***************************************************************************)
C3_NoDuplicates ==
  \A i, j \in 1..Len(Yielded) : i # j => Yielded[i] # Yielded[j]

(***************************************************************************)
(* C4: X/**/R produces the union, over every directory D of the subtree    *)
(* rooted at X (X included), of what R produces from D.                    *)
(***************************************************************************)
C4_Pre == Drained /\ HasLiteralPrefix /\ RComps # <<>>

C4_RecursiveUnion ==
  C4_Pre => YieldedSet = UNION {ProducedFrom(RComps, d) : d \in SubtreeDirs(XPath)}

\* R found something beneath X itself and beneath a deeper directory.
C4_Witness ==
  /\ C4_Pre
  /\ \E k \in 1..Len(RComps) : RComps[k] # <<>>
  /\ ProducedFrom(RComps, XPath) # {}
  /\ \E d \in SubtreeDirs(XPath) :
       Len(d) > Len(XPath) + 1 /\ ProducedFrom(RComps, d) \ ProducedFrom(RComps, XPath) # {}

(***************************************************************************)
(* C5: X/** (with or without a trailing separator) produces exactly the    *)
(* directories of the subtree rooted at X, X included, and no regular      *)
(* file.                                                                   *)
(***************************************************************************)
C5_Pre ==
  /\ Drained
  /\ HasLiteralPrefix
  /\ \A k \in (RecIdx + 1)..Len(PatComps) :
       PatComps[k] = <<"*", "*">> \/ (k = Len(PatComps) /\ PatComps[k] = <<>>)

C5_DirectoriesOnly ==
  C5_Pre => /\ YieldedSet = SubtreeDirs(XPath)
            /\ \A y \in YieldedSet : Resolve(y) \notin fs.files

\* X is a directory that holds a regular file and a nested directory.
C5_Witness ==
  /\ C5_Pre
  /\ Cardinality(YieldedSet) >= 3
  /\ \E n \in fs.files : Len(n) > Len(Resolve(XPath))
                         /\ SubSeq(n, 1, Len(Resolve(XPath))) = Resolve(XPath)

(***************************************************************************)
(* C6: for a non-empty relative pattern P, what P followed by a separator  *)
(* produces is exactly the directories among what P produces.              *)
(***************************************************************************)
C6_Pre == Drained /\ Len(pattern) >= 2 /\ Last(pattern) = SEP /\ Head(pattern) # SEP

C6_DirectoryOnly ==
  C6_Pre => /\ \A y \in YieldedSet : IsDirectory(y)
            /\ YieldedSet = {q \in glob_set(fs, ButLast(pattern)) : IsDirectory(q)}

\* P produces a directory and a regular file; only the directory is kept.
C6_Witness ==
  /\ C6_Pre
  /\ YieldedSet # {}
  /\ \E q \in glob_set(fs, ButLast(pattern)) : ~IsDirectory(q)

(***************************************************************************)
(* C7: a fresh Paths value that is pulled again and again reaches          *)
(* end-of-stream.                                                          *)
(***************************************************************************)
C7_ReachesEnd == (status = "active") ~> Ended

\* Several paths were pulled, then end-of-stream.
C7_Witness == Drained /\ Len(Yielded) >= 4

(***************************************************************************)
(* C8: a directory listing that fails is taken as empty; no pull aborts.   *)
(***************************************************************************)
C8_NeverAborts == status # "panic"

(***************************************************************************)
(* C9: a wildcard expansion of a directory produces the matching entries   *)
(* in the order the listing returned them; a `**` expansion produces the   *)
(* directories in the order the walker visits them.                        *)
(***************************************************************************)
RECURSIVE SelectMatching(_, _)
SelectMatching(node, entries) ==
  IF entries = <<>> THEN <<>>
  ELSE (IF matches_path(node, Head(entries)) THEN <<Head(entries)>> ELSE <<>>)
       \o SelectMatching(node, Tail(entries))

\* The directories in the order Directories::next returns them.
RECURSIVE WalkOrder(_)
WalkOrder(stack) ==
  IF stack = <<>> THEN <<>>
  ELSE LET n == Directories_next(fs, stack) IN <<n.item.val>> \o WalkOrder(n.stack)

\* The pattern is X/w: literal names, then one wildcard component.
C9_WildcardPre ==
  /\ Drained
  /\ Len(PatComps) >= 1
  /\ \A k \in 1..(Len(PatComps) - 1) : IsLiteral(PatComps[k])
  /\ WILDCARD(Last(PatComps)) /\ Last(PatComps) # <<"*", "*">>

C9_ListingOrder ==
  /\ C9_WildcardPre =>
       LET x == scope \o ButLast(PatComps) IN
       Yielded = IF IsDirectory(x)
                 THEN SelectMatching(selector[Len(selector) - 1], readdir(fs, x).val)
                 ELSE <<>>
  /\ (C5_Pre /\ Last(PatComps) = <<"*", "*">>) =>
       Yielded = IF IsDirectory(XPath) THEN WalkOrder(<<XPath>>) ELSE <<>>

(***************************************************************************)
(* C10: a second, independent Paths value for the same pattern produces    *)
(* the same set of paths, whichever order the listings come in.            *)
(***************************************************************************)
C10_SameSet ==
  Drained => \A o \in Orders(fs) : glob_set([fs EXCEPT !.order = o], pattern) = YieldedSet

\* The other listing order makes the second run pull in another order.
C10_Witness ==
  /\ Drained
  /\ Len(Yielded) >= 3
  /\ \E o \in Orders(fs) : collect([fs EXCEPT !.order = o], glob(pattern)).paths # Yielded

(***************************************************************************)
(* C11: a pattern in which a `**` component is immediately repeated        *)
(* produces the same set of paths as the pattern with a single `**` in     *)
(* that place.                                                             *)
(***************************************************************************)
\* The components with every `**` that directly follows a `**` removed.
RECURSIVE DedupStars(_)
DedupStars(cs) ==
  IF Len(cs) < 2 THEN cs
  ELSE IF cs[1] = <<"*", "*">> /\ cs[2] = <<"*", "*">> THEN DedupStars(Tail(cs))
  ELSE <<Head(cs)>> \o DedupStars(Tail(cs))

C11_Pre ==
  /\ Drained
  /\ \E k \in 1..(Len(PatComps) - 1) :
       PatComps[k] = <<"*", "*">> /\ PatComps[k + 1] = <<"*", "*">>

C11_RepeatedRecursive ==
  C11_Pre => YieldedSet = glob_set(fs, JoinSep(DedupStars(split(pattern))))

\* `**/**/R` with R a name or a wildcard found at least two paths.
C11_Witness ==
  /\ C11_Pre
  /\ Last(PatComps) \notin {<<>>, <<"*", "*">>}
  /\ Cardinality(YieldedSet) >= 2

(***************************************************************************)
(* glob over patterns of names, `*` and `..` components.                   *)
(***************************************************************************)
DotComponents == {A, <<"*">>, DOTDOT}

DotPatterns == {JoinSep(cs) : cs \in UNION {[1..n -> DotComponents] : n \in 1..MaxComps}}

InitDot ==
  /\ NoPatternUse
  /\ \E p \in DotPatterns : Construct(p)
  /\ \E t \in Trees : \E o \in Orders(t) :
       fs = [dirs |-> t.dirs, files |-> t.files, unreadable |-> {}, order |-> o]

SpecDot == InitDot /\ [][Next]_vars

(***************************************************************************)
(* C20: for a pattern without `**`, every produced path has as many        *)
(* separator-delimited components as the pattern has after the scope root  *)
(* is stripped.                                                            *)
(***************************************************************************)
C20_Pre ==
  /\ status = "active"
  /\ \A k \in 1..Len(PatComps) : PatComps[k] # <<"*", "*">> /\ PatComps[k] # <<>>

\* The separator-delimited components of a produced path below its root.
C20_PathComps(y) ==
  split(as_str(IF y # <<>> /\ Head(y) = ROOT THEN Tail(y) ELSE y))

C20_SameDepth ==
  C20_Pre => \A y \in YieldedSet : Len(C20_PathComps(y)) = Len(PatComps)

(***************************************************************************)
(* glob over patterns of names, brackets and separators.                   *)
(***************************************************************************)
MaxGlobLen == 4

ClassGlobPatterns == Strings({"a", "[", "]", SEP}, MaxGlobLen)

InitClass ==
  /\ NoPatternUse
  /\ \E p \in ClassGlobPatterns : Construct(p)
  /\ \E t \in Trees : \E o \in Orders(t) :
       fs = [dirs |-> t.dirs, files |-> t.files, unreadable |-> {}, order |-> o]

SpecClass == InitClass /\ [][Next]_vars

(***************************************************************************)
(* What the Pattern properties below speak of                              *)
(***************************************************************************)
\* Pattern::matches has answered for a pattern text the caller wrote.
Asked == answer.some /\ ~escaped

\* Pattern::new has returned (or panicked) for a text the caller wrote.
Built == compiled # NotBuilt /\ ~escaped

HasSeparator(str) == \E k \in 1..Len(str) : str[k] = SEP

(***************************************************************************)
(* C12: Pattern("*") matches exactly the strings without a separator;      *)
(* Pattern("**") matches every string.                                     *)
(***************************************************************************)
C12_StarContainment ==
  Asked =>
    /\ pattern = <<"*">> => answer.val = ~HasSeparator(subject)
    /\ pattern = <<"*", "*">> => answer.val = TRUE

(***************************************************************************)
(* C13: a `?` never matches the separator: u?v does not match the string   *)
(* that is u, a separator, v.                                              *)
(***************************************************************************)
\* The pattern is literal characters around one `?`; its position, else 0.
QuestionAt(p) ==
  IF /\ Cardinality({k \in 1..Len(p) : p[k] = "?"}) = 1
     /\ \A k \in 1..Len(p) : p[k] \notin {"*", "[", "]"}
  THEN CHOOSE k \in 1..Len(p) : p[k] = "?"
  ELSE 0

C13_Pre ==
  /\ Asked
  /\ QuestionAt(pattern) # 0
  /\ Len(subject) = Len(pattern)
  /\ \A k \in 1..Len(pattern) :
       IF k = QuestionAt(pattern) THEN subject[k] = SEP ELSE subject[k] = pattern[k]

C13_QuestionNotSeparator == C13_Pre => answer.val = FALSE

(***************************************************************************)
(* C14: Pattern("a/**/a") matches a string only if it is `a`, zero or more *)
(* whole components, and a final component that is exactly `a`.            *)
(***************************************************************************)
C14_Pre == Asked /\ pattern = JoinSep(<<A, <<"*", "*">>, A>>)

C14_WholeComponents ==
  C14_Pre =>
    (answer.val => /\ Len(split(subject)) >= 2
                   /\ Head(split(subject)) = A
                   /\ Last(split(subject)) = A)

(***************************************************************************)
(* C15: [body] matches a one-character string x iff x is a listed          *)
(* character or lies in a listed range; [!body] iff it does not.           *)
(***************************************************************************)
\* A class body as the pattern language reads it: lo-hi ranges and single
\* characters, from 1-based position k on.
RECURSIVE BodyHolds(_, _, _)
BodyHolds(body, k, x) ==
  IF k > Len(body) THEN FALSE
  ELSE IF k + 2 <= Len(body) /\ body[k + 1] = "-"
  THEN (CharCode(body[k]) <= CharCode(x) /\ CharCode(x) <= CharCode(body[k + 2]))
       \/ BodyHolds(body, k + 3, x)
  ELSE body[k] = x \/ BodyHolds(body, k + 1, x)

\* A `]` may only be the first member of a body.
ValidBody(body) == body # <<>> /\ \A k \in 2..Len(body) : body[k] # "]"

C15_Negated == Len(pattern) >= 2 /\ pattern[2] = "!"

C15_Body ==
  SubSeq(pattern, IF C15_Negated THEN 3 ELSE 2, Len(pattern) - 1)

C15_Pre ==
  /\ Asked
  /\ pattern \in ClassPatterns
  /\ ValidBody(C15_Body)
  /\ Len(subject) = 1

C15_ClassMembership ==
  C15_Pre => answer.val = (IF C15_Negated
                           THEN ~BodyHolds(C15_Body, 1, subject[1])
                           ELSE BodyHolds(C15_Body, 1, subject[1]))

(***************************************************************************)
(* C16: for every string s, Pattern::new(Pattern::escape(s)) succeeds and  *)
(* the pattern matches s.                                                  *)
(***************************************************************************)
C16_EscapeRoundTrip ==
  escaped => /\ compiled.kind \in {"none", "ok"}
             /\ answer.some => answer.val = TRUE

\* A string with a bracket and a wildcard character was escaped and asked.
C16_Witness ==
  /\ escaped /\ answer.some
  /\ \E k \in 1..Len(subject) : subject[k] \in {"[", "]"}
  /\ \E k \in 1..Len(subject) : subject[k] \in {"*", "?"}

(***************************************************************************)
(* C17: a pattern with a `**` component immediately repeated and the       *)
(* pattern with a single `**` there both compile and match the same        *)
(* strings.                                                                *)
(***************************************************************************)
C17_Pre ==
  /\ ~escaped
  /\ \E k \in 1..(Len(split(pattern)) - 1) :
       split(pattern)[k] = <<"*", "*">> /\ split(pattern)[k + 1] = <<"*", "*">>

C17_Single == Pattern_new(JoinSep(DedupStars(split(pattern))))

C17_RepeatedSameMatches ==
  C17_Pre =>
    /\ compiled # NotBuilt => (compiled.kind = "ok" /\ C17_Single.kind = "ok")
    /\ answer.some => answer.val = matches(C17_Single, subject)

\* u/**/**/v with names u and v matched a string with a middle component.
C17_Witness ==
  /\ C17_Pre /\ answer.some /\ answer.val
  /\ Head(split(pattern)) = A /\ Last(split(pattern)) = A
  /\ Len(split(subject)) >= 2

(***************************************************************************)
(* C18: a misused run of `*` is rejected with the offset of the first      *)
(* offending character: the third `*` of a run of three or more; the       *)
(* character before a `**` that does not start a component; the character  *)
(* after a `**` that does not end one.                                     *)
(***************************************************************************)
\* The length of the maximal run of `*` at 0-based index i.
RECURSIVE RunLength(_, _)
RunLength(chars, i) ==
  IF i < Len(chars) /\ chars[i + 1] = "*" THEN 1 + RunLength(chars, i + 1) ELSE 0

\* The offset the run at 0-based [s, s + n) is rejected with, or -1.
RunError(chars, s, n) ==
  IF n >= 3 THEN s + 2
  ELSE IF n = 2 /\ s > 0 /\ chars[s] # SEP THEN s - 1
  ELSE IF n = 2 /\ s + n < Len(chars) /\ chars[s + n + 1] # SEP THEN s + n
  ELSE -1

\* The offset of the leftmost misuse from 0-based index i on, or -1.
RECURSIVE FirstStarError(_, _)
FirstStarError(chars, i) ==
  IF i >= Len(chars) THEN -1
  ELSE IF chars[i + 1] # "*" THEN FirstStarError(chars, i + 1)
  ELSE IF RunError(chars, i, RunLength(chars, i)) # -1
  THEN RunError(chars, i, RunLength(chars, i))
  ELSE FirstStarError(chars, i + RunLength(chars, i))

C18_Pre == Built /\ pattern \in CharPatterns /\ FirstStarError(pattern, 0) # -1

C18_StarErrorPosition ==
  C18_Pre => compiled.kind = "err" /\ compiled.pos = FirstStarError(pattern, 0)

\* A `**` after a name was rejected at the name.
C18_Witness ==
  /\ C18_Pre
  /\ compiled.kind = "err"
  /\ compiled.pos >= 1
  /\ RunLength(pattern, compiled.pos + 1) = 2

(***************************************************************************)
(* C19: a `[` that no `]` closes, or an empty class, makes Pattern::new    *)
(* return an Error whose pos is the offset of that `[`, whatever the       *)
(* length of the pattern.                                                  *)
(***************************************************************************)
\* The 0-based index of the first `]` at or after 0-based index i, or -1.
RECURSIVE ClosingAt(_, _)
ClosingAt(chars, i) ==
  IF i >= Len(chars) THEN -1
  ELSE IF chars[i + 1] = "]" THEN i
  ELSE ClosingAt(chars, i + 1)

\* The offset of the leftmost `[` without a class, from index i on, or -1.
\* A class has at least one member, so the search for `]` starts after it.
RECURSIVE FirstBadBracket(_, _)
FirstBadBracket(chars, i) ==
  IF i >= Len(chars) THEN -1
  ELSE IF chars[i + 1] # "[" THEN FirstBadBracket(chars, i + 1)
  ELSE LET from == IF i + 1 < Len(chars) /\ chars[i + 2] = "!" THEN i + 3 ELSE i + 2
       IN IF ClosingAt(chars, from) = -1 THEN i
          ELSE FirstBadBracket(chars, ClosingAt(chars, from) + 1)

C19_Pre == Built /\ pattern \in BracketPatterns /\ FirstBadBracket(pattern, 0) # -1

C19_BracketErrorPosition ==
  C19_Pre => compiled.kind = "err" /\ compiled.pos = FirstBadBracket(pattern, 0)

(***************************************************************************)
(* C21: whenever the pull on the head of the chain returns None, the whole *)
(* chain is back in its initial state: no Wildcard node holds entries, no  *)
(* Recursive node holds a walker, and the Terminating flag is false.       *)
(***************************************************************************)
ChainInitial(chain) ==
  \A i \in 1..Len(chain) :
    /\ ~chain[i].entries.some
    /\ ~chain[i].directories.some
    /\ ~chain[i].terminated

ReturnedNone == status = "active" /\ out # <<>> /\ ~Last(out).some

C21_ResetOnNone == ReturnedNone => ChainInitial(selector)

\* A chain with a Wildcard and a Recursive node returned None after paths.
C21_Witness ==
  /\ ReturnedNone
  /\ Len(out) >= 3
  /\ \E i \in 1..Len(selector) : selector[i].kind = "Wildcard"
  /\ \E i \in 1..Len(selector) : selector[i].kind = "Recursive"

(***************************************************************************)
(* The calls of two pulls in a row                                         *)
(***************************************************************************)
\* The calls the pull of this step makes, and those the pull after it makes.
ThisPull == calls_from(fs, selector, 1, scope, dir_only)

NextPull == calls_from(fs', selector', 1, scope', dir_only')

CallsTo(log, i) == {k \in 1..Len(log) : log[k].node = i}

FirstCallTo(log, i) == log[CHOOSE k \in CallsTo(log, i) : \A m \in CallsTo(log, i) : k <= m]

LastCallTo(log, i) == log[CHOOSE k \in CallsTo(log, i) : \A m \in CallsTo(log, i) : k >= m]

\* The node holds cursor state.
Saved(node) == node.entries.some \/ node.directories.some \/ node.terminated

(***************************************************************************)
(* C22: when a node saved cursor state on a call (a Wildcard's remaining   *)
(* entries, a Recursive node's walker, the Terminating flag set), the next *)
(* call that node receives carries the same path as the call that saved    *)
(* the state.                                                              *)
(***************************************************************************)
C22_Resumes ==
  (\E i \in 1..Len(selector') : Saved(selector'[i])) =>
  \A this \in {ThisPull}, next \in {NextPull} :
    \A i \in 1..Len(selector') :
      Saved(selector'[i]) =>
        /\ CallsTo(this, i) # {}
        /\ CallsTo(next, i) # {}
        /\ FirstCallTo(next, i).path = LastCallTo(this, i).path

C22_SamePathOnResume == [][status' = "active" => C22_Resumes]_vars

\* A Wildcard node holds entries, a Recursive node holds a walker and the
\* Terminating flag is set, all at once, after at least two pulls.
C22_Witness ==
  /\ status = "active" /\ Len(out) >= 2
  /\ \E i \in 1..Len(selector) :
       selector[i].kind = "Wildcard" /\ selector[i].entries.some
  /\ \E i \in 1..Len(selector) :
       selector[i].kind = "Recursive" /\ selector[i].directories.some
  /\ selector[Len(selector)].terminated

(***************************************************************************)
(* C23: in a Wildcard node with a non-terminating successor, after the     *)
(* successor returns a match for entry e the very next call visits e again *)
(* before any other entry, and the node moves on to another entry only     *)
(* after the successor has returned None for e.                            *)
(***************************************************************************)
WildcardWithSuccessor(chain) ==
  {i \in 1..(Len(chain) - 1) :
     chain[i].kind = "Wildcard" /\ ~is_terminating(chain[i + 1])}

\* Every entry handed to node j before another entry got None.
DroppedOnNone(log, j) ==
  \A k \in CallsTo(log, j) :
    (\E m \in CallsTo(log, j) : m > k) => ~log[k].some

C23_Revisits ==
  WildcardWithSuccessor(selector) # {} =>
  \A this \in {ThisPull} :
    /\ \A i \in WildcardWithSuccessor(selector) : DroppedOnNone(this, i + 1)
    /\ (\E i \in WildcardWithSuccessor(selector) :
           CallsTo(this, i + 1) # {} /\ LastCallTo(this, i + 1).some) =>
         \A next \in {NextPull} :
           \A i \in WildcardWithSuccessor(selector) :
             (CallsTo(this, i + 1) # {} /\ LastCallTo(this, i + 1).some) =>
               /\ CallsTo(next, i + 1) # {}
               /\ FirstCallTo(next, i + 1).path = LastCallTo(this, i + 1).path

C23_SameEntryRevisited == [][status' = "active" => C23_Revisits]_vars

\* A Wildcard node followed by another Wildcard holds entries after its
\* successor matched twice.
C23_Witness ==
  /\ status = "active" /\ Len(out) >= 2 /\ Last(out).some
  /\ \E i \in WildcardWithSuccessor(selector) :
       /\ selector[i].entries.some
       /\ Len(selector[i].entries.val) >= 2
       /\ selector[i + 1].kind = "Wildcard"

(***************************************************************************)
(* C24: a Wildcard node whose successor is Terminating, called with        *)
(* dir_only set.  glob sets is_dir only for a pattern that ends in a       *)
(* separator, and such a pattern's last component is empty, so the node    *)
(* before Terminating is then Precise("") and never a Wildcard: the case   *)
(* of the claim arises in no state a Paths value is ever in.               *)
(***************************************************************************)
C24_CaseArises ==
  /\ dir_only
  /\ \E i \in 1..(Len(selector) - 1) :
       selector[i].kind = "Wildcard" /\ selector[i + 1].kind = "Terminating"

C24_CaseNeverArises == ~C24_CaseArises

(***************************************************************************)
(* C25: a Precise node delegates to its successor with path/lit exactly    *)
(* when path is a directory and path/lit exists; otherwise it returns None *)
(* and leaves the chain as it was.  Hence a pattern of names one of which  *)
(* does not exist, or is looked up beneath a regular file, produces        *)
(* nothing.                                                                *)
(***************************************************************************)
\* The paths a Precise node is asked about.
ProbePaths == {scope \o q : q \in UniversePaths \cup {<<>>}}

C25_NodeDelegates(i, p) ==
  \E joined \in {join(p, selector[i].pattern)} :
    IF is_dir(fs, p) /\ exists(fs, joined)
    THEN select_from(fs, selector, i, p, dir_only)
           = select_from(fs, selector, i + 1, joined, dir_only)
    ELSE select_from(fs, selector, i, p, dir_only) = Ret(None, selector)

\* The pattern is relative and made of names only.
C25_Names ==
  /\ scope = <<>>
  /\ \A k \in 1..Len(PatComps) : IsLiteral(PatComps[k])

\* Every name of the pattern but the last is a directory and the last exists.
C25_Found ==
  /\ \A k \in 1..(Len(PatComps) - 1) : SubSeq(PatComps, 1, k) \in fs.dirs
  /\ PatComps \in Nodes

C25_PreciseDelegates ==
  status = "active" =>
    /\ \A i \in 1..Len(selector) :
         selector[i].kind = "Precise" => \A p \in ProbePaths : C25_NodeDelegates(i, p)
    /\ (C25_Names /\ Drained) => YieldedSet = (IF C25_Found THEN {PatComps} ELSE {})

\* A name was looked up beneath a regular file and nothing was produced.
C25_Witness ==
  /\ Drained /\ C25_Names
  /\ Len(PatComps) >= 2
  /\ <<PatComps[1]>> \in fs.files
  /\ <<PatComps[1], PatComps[2]>> \notin Nodes
  /\ Yielded = <<>>

(***************************************************************************)
(* C26: for every pattern the tokenizer accepts, the token list never      *)
(* holds two any-recursive-sequence tokens in a row, wherever the repeated *)
(* `**` components stand.                                                  *)
(***************************************************************************)
AdjacentRecursive(tokens) ==
  \E k \in 1..(Len(tokens) - 1) :
    tokens[k] = AnyRecursiveSequence /\ tokens[k + 1] = AnyRecursiveSequence

C26_TokensCollapsed ==
  (Built /\ compiled.kind = "ok") => ~AdjacentRecursive(parse(pattern).tokens)

(***************************************************************************)
(* C27: the chain built for an accepted pattern has exactly one            *)
(* Terminating node, which is its last node, and never has two adjacent    *)
(* Recursive nodes.                                                        *)
(***************************************************************************)
C27_ChainShape ==
  status = "active" =>
    /\ selector # <<>>
    /\ \A i \in 1..Len(selector) : is_terminating(selector[i]) <=> i = Len(selector)
    /\ \A i \in 1..(Len(selector) - 1) :
         ~(selector[i].kind = "Recursive" /\ selector[i + 1].kind = "Recursive")

\* A pattern with `**` repeated was accepted and pulled from.
C27_Witness ==
  /\ status = "active" /\ out # <<>>
  /\ \E k \in 1..(Len(PatComps) - 1) :
       PatComps[k] = <<"*", "*">> /\ PatComps[k + 1] = <<"*", "*">>
  /\ Cardinality({i \in 1..Len(selector) : selector[i].kind = "Recursive"}) = 1

(***************************************************************************)
(* C28: if the whole root-stripped pattern compiles, every component that  *)
(* is compiled on its own compiles too, and glob returns a Paths value     *)
(* rather than an error or a crash, also when a bracket class holds a      *)
(* separator.                                                              *)
(***************************************************************************)
Trimmed == IF root_path(pattern).some THEN Tail(pattern) ELSE pattern

C28_WholeCompiles == Pattern_new(Trimmed).kind = "ok"

C28_OnlyWholeCompileRejects ==
  (C28_WholeCompiles /\ out = <<>>) =>
    /\ \A k \in 1..Len(split(Trimmed)) :
         WILDCARD(split(Trimmed)[k]) => Pattern_new(split(Trimmed)[k]).kind = "ok"
    /\ status = "active"

=============================================================================
